---- MODULE Spec2Model ----
(***************************************************************************)
(* A model of ceviche-rs' Linux backend (src/src/controller/linux.rs):     *)
(*   - the command executor (systemctl_execute, ..._with_result),          *)
(*   - the controller operations create/delete/start/stop/get_status,      *)
(*   - the session monitor and the event dispatcher (run_monitor,          *)
(*     dispatch) with the documented service_main loop of src/src/lib.rs.  *)
(* Strings are sequences of one-character strings, so that substring       *)
(* search, trimming and number parsing are computed, not assumed.          *)
(***************************************************************************)
EXTENDS Integers, Sequences, FiniteSets, TLC

VARIABLES
    \* ---- command executor, one invocation
    ex_args,          \* the argument vector of the invocation
    ex_out,           \* what the spawned process did (environment)
    ex_fn,            \* which executor function ran: "none", "with_result", "unit"
    ex_res,           \* what the executor gave its caller
    \* ---- controller
    native,           \* what the native manager and /proc answer (environment)
    config,           \* LinuxController.config : Option<String>
    fs,               \* which of the descriptor paths exist
    ctl_op,           \* the last finished create/delete/start/stop: name, commands run, result
    gs_pc,            \* get_status: position
    gs_pid,           \* get_status: local pid
    gs_is_failed,     \* get_status: local is_failed
    gs_cmdline,       \* get_status: local cmdline
    gs_log,           \* get_status: the executor results of its queries, in order
    gs_result,        \* get_status: what it gave its caller
    gs_at,            \* get_status: the native state each of its steps met, in order
    gs_prev,          \* the get_status call before this one: its result and its gs_at
    \* ---- dispatcher
    d_pc,             \* dispatch: position
    current_session,  \* run_monitor: the closure's captured slot
    active_session,   \* run_monitor: the session the last query gave
    queue,            \* the mpsc channel's buffer
    rx_alive,         \* the Receiver has not been dropped
    received,         \* what service_main's rx.recv() has returned so far
    sm_pc,            \* service_main: position
    sends,            \* per producer, every tx.send call so far: event, whether it returned Ok
    changes,          \* how many queries gave another session than the query before
    notified,         \* notifications delivered to the monitor callback
    interrupts,       \* interrupt signals delivered to the ctrlc handler
    cb_pc,            \* the monitor callback: position
    cb_sent,          \* the events the running (or last) callback has sent
    registered,       \* the producers dispatch has registered, in the order it did
    last_query,       \* what the last get_active_session() call returned
    startup_session   \* the session run_monitor recorded before it subscribed

ex_vars  == <<ex_args, ex_out, ex_fn, ex_res>>
ctl_vars == <<native, config, fs, ctl_op, gs_pc, gs_pid, gs_is_failed, gs_cmdline, gs_log,
              gs_result, gs_at, gs_prev>>
d_vars   == <<d_pc, current_session, active_session, queue, rx_alive, received, sm_pc,
              sends, changes, notified, interrupts, cb_pc, cb_sent, registered,
              last_query, startup_session>>
vars     == <<ex_vars, ctl_vars, d_vars>>

---------------------------------------------------------------------------
(* Bounds of the model.                                                    *)

\* exit codes of the spawned process range over 0..MaxExitCode
MaxExitCode == 2
\* a status text is a head followed by at most MaxFrags fragments
MaxFrags == 2
\* notifications delivered to the monitor callback in one run
MaxNotify == 2
\* interrupt signals delivered in one run
MaxInterrupts == 1
\* events service_main sends on its own sender handle in one run
MaxOwnSends == 1

---------------------------------------------------------------------------
(* Options and results.                                                    *)

None == [tag |-> "None"]
Some(x) == [tag |-> "Some", val |-> x]

Ok(x) == [tag |-> "Ok", val |-> x]
Err(e) == [tag |-> "Err", err |-> e]
\* a panic: the call does not return to its caller
Panic(m) == [tag |-> "Panic", msg |-> m]

Range(s) == {s[i] : i \in 1..Len(s)}

---------------------------------------------------------------------------
(* Strings.                                                                *)

\* a byte that is not valid UTF-8, and U+FFFD which lossy decoding puts for it
BadByte == "<FF>"
ReplacementChar == "<U+FFFD>"

\* String::from_utf8_lossy
FromUtf8Lossy(bytes) ==
    [i \in 1..Len(bytes) |-> IF bytes[i] = BadByte THEN ReplacementChar ELSE bytes[i]]

\* std::str::from_utf8(..).unwrap_or_default()
FromUtf8OrDefault(bytes) ==
    IF BadByte \in Range(bytes) THEN <<>> ELSE bytes

\* String::from_utf8: Ok(the string) or Err
FromUtf8(bytes) ==
    IF BadByte \in Range(bytes) THEN Err("FromUtf8Error") ELSE Ok(bytes)

\* str::contains
Contains(s, pat) ==
    \E i \in 1..(Len(s) - Len(pat) + 1) : SubSeq(s, i, i + Len(pat) - 1) = pat

StartsWith(s, pat) ==
    Len(s) >= Len(pat) /\ SubSeq(s, 1, Len(pat)) = pat

\* str::trim_start_matches: the prefix is removed as often as it occurs
RECURSIVE TrimStartMatches(_, _)
TrimStartMatches(s, pat) ==
    IF StartsWith(s, pat) THEN TrimStartMatches(SubSeq(s, Len(pat) + 1, Len(s)), pat) ELSE s

IsWhitespace(c) == c \in {" ", "\n", "\t", "\r"}

RECURSIVE TrimStart(_)
TrimStart(s) ==
    IF s # <<>> /\ IsWhitespace(Head(s)) THEN TrimStart(Tail(s)) ELSE s

RECURSIVE TrimEnd(_)
TrimEnd(s) ==
    IF s # <<>> /\ IsWhitespace(s[Len(s)]) THEN TrimEnd(SubSeq(s, 1, Len(s) - 1)) ELSE s

\* str::trim
Trim(s) == TrimEnd(TrimStart(s))

Digits == <<"0", "1", "2", "3", "4", "5", "6", "7", "8", "9">>
IsDigit(c) == c \in Range(Digits)
DigitVal(c) == (CHOOSE i \in 1..10 : Digits[i] = c) - 1

RECURSIVE StripZeros(_)
StripZeros(ds) ==
    IF Len(ds) > 1 /\ Head(ds) = "0" THEN StripZeros(Tail(ds)) ELSE ds

\* lexicographic <= of two digit strings of the same length
RECURSIVE DigitsLeq(_, _)
DigitsLeq(a, b) ==
    IF a = <<>> THEN TRUE
    ELSE IF DigitVal(Head(a)) < DigitVal(Head(b)) THEN TRUE
    ELSE IF DigitVal(Head(a)) > DigitVal(Head(b)) THEN FALSE
    ELSE DigitsLeq(Tail(a), Tail(b))

\* u32::MAX, 4294967295, in decimal
U32MaxDigits == <<"4", "2", "9", "4", "9", "6", "7", "2", "9", "5">>

\* str::parse::<u32>: an optional "+", then one or more decimal digits, the value
\* at most u32::MAX.  The value is kept as its decimal digits without leading
\* zeros, which is how format!("{}", pid) writes it.
ParseU32(s) ==
    LET ds == IF s # <<>> /\ Head(s) = "+" THEN Tail(s) ELSE s
        n  == StripZeros(ds)
    IN  IF ds = <<>> \/ \E i \in 1..Len(ds) : ~IsDigit(ds[i])
        THEN Err("ParseIntError")
        ELSE IF Len(n) > Len(U32MaxDigits)
                \/ (Len(n) = Len(U32MaxDigits) /\ ~DigitsLeq(n, U32MaxDigits))
        THEN Err("ParseIntError")
        ELSE Ok(n)

---------------------------------------------------------------------------
(* The command executor.                                                   *)

\* LinuxController.service_name
ServiceName == "svc"

\* the argument vectors the controller passes to the executor
ArgsDaemonReload == <<"daemon-reload">>
ArgsEnable       == <<"enable", ServiceName>>
ArgsDisable      == <<"disable", ServiceName>>
ArgsResetFailed  == <<"reset-failed">>
ArgsStart        == <<"start", ServiceName>>
ArgsStop         == <<"stop", ServiceName>>
ArgsShowPid      == <<"show", "-p", "MainPID", ServiceName>>
ArgsIsFailed     == <<"is-failed", ServiceName>>
ArgsStatus       == <<"status", ServiceName>>

ArgVectors ==
    {ArgsDaemonReload, ArgsEnable, ArgsDisable, ArgsResetFailed, ArgsStart, ArgsStop,
     ArgsShowPid, ArgsIsFailed, ArgsStatus}

\* What Command::output() can give: the spawn failed, or the process ran and either
\* exited with a code or was terminated by a signal (ExitStatus::code() is None).
SpawnFailed(cause) == [kind |-> "spawn_failed", cause |-> cause]
Exited(code, stdout, stderr) ==
    [kind |-> "exited", code |-> code, stdout |-> stdout, stderr |-> stderr]
Signaled(stdout, stderr) == [kind |-> "signaled", stdout |-> stdout, stderr |-> stderr]

\* ExitStatus::success()
Success(out) == out.kind = "exited" /\ out.code = 0

SpawnError(args, out) ==
    [msg |-> "Failed to execute command", command |-> args[1], cause |-> out.cause]
CommandError(args, out) ==
    [msg |-> "Command failed", command |-> args[1], code |-> out.code,
     stderr |-> FromUtf8OrDefault(out.stderr)]

\* mutant: a spawn failure reported as a failed command
SystemctlExecuteWithResult_SpawnAsCommand(args, out) ==
    IF out.kind = "spawn_failed"
    THEN Err([msg |-> "Command failed", command |-> args[1], code |-> 1, stderr |-> <<>>])
    ELSE IF ~Success(out)
    THEN IF out.kind = "exited"
         THEN Err(CommandError(args, out))
         ELSE Panic("Process terminated by signal")
    ELSE Ok(FromUtf8Lossy(out.stdout))

\* systemctl_execute_with_result
SystemctlExecuteWithResult(args, out) ==
    IF out.kind = "spawn_failed"
    THEN Err(SpawnError(args, out))
    ELSE IF ~Success(out)
    THEN IF out.kind = "exited"
         THEN Err(CommandError(args, out))
         ELSE Panic("Process terminated by signal")
    ELSE Ok(FromUtf8Lossy(out.stdout))

\* the value of Ok(())
Unit == <<>>

\* systemctl_execute
SystemctlExecute(args, out) ==
    IF out.kind = "spawn_failed"
    THEN Err(SpawnError(args, out))
    ELSE IF ~Success(out)
    THEN IF out.kind = "exited"
         THEN Err(CommandError(args, out))
         ELSE Panic("Process terminated by signal")
    ELSE Ok(Unit)

\* captured output streams the model draws from
SampleStdouts == {<<>>, <<"o", "k", "\n">>, <<"o", BadByte>>}
SampleStderrs == {<<>>, <<"n", "o", " ", "u", "n", "i", "t", "\n">>, <<BadByte, "!">>}
SpawnCauses   == {"NotFound", "PermissionDenied"}

ProcessOutcomes ==
    {SpawnFailed(c) : c \in SpawnCauses}
    \cup {Exited(c, o, e) : c \in 0..MaxExitCode, o \in SampleStdouts, e \in SampleStderrs}
    \cup {Signaled(o, e) : o \in SampleStdouts, e \in SampleStderrs}

\* one call of systemctl_execute_with_result
ExecWithResult ==
    /\ ex_fn = "none"
    /\ ex_fn' = "with_result"
    /\ ex_res' = SystemctlExecuteWithResult(ex_args, ex_out)
    /\ UNCHANGED <<ex_args, ex_out, ctl_vars, d_vars>>

\* one call of systemctl_execute
ExecUnit ==
    /\ ex_fn = "none"
    /\ ex_fn' = "unit"
    /\ ex_res' = SystemctlExecute(ex_args, ex_out)
    /\ UNCHANGED <<ex_args, ex_out, ctl_vars, d_vars>>

---------------------------------------------------------------------------
(* get_status.                                                             *)

ActiveMarker    == <<"a", "c", "t", "i", "v", "e", " ", "(">>
RunningMarker   == <<" ", "(", "r", "u", "n", "n", "i", "n", "g", ")">>
ExitedMarker    == <<" ", "(", "e", "x", "i", "t", "e", "d", ")">>
WaitingMarker   == <<" ", "(", "w", "a", "i", "t", "i", "n", "g", ")">>
DeadMarker      == <<" ", "(", "d", "e", "a", "d", ")">>
ResettingMarker == <<" ", "(", "r", "e", "s", "e", "t", "t", "i", "n", "g", ")">>
MainPidPrefix   == <<"M", "a", "i", "n", "P", "I", "D", "=">>
FailedWord      == <<"f", "a", "i", "l", "e", "d">>

\* ServiceState::Active(ActiveState::..) and ServiceState::Inactive(InactiveState::..)
Active(sub)   == [top |-> "Active", sub |-> sub]
Inactive(sub) == [top |-> "Inactive", sub |-> sub]

InvalidState(result) == [msg |-> "Invalid ActiveState", text |-> result]

\* mutant: an unrecognized text falls back to a Dead state
ParseState_Fallback(result) ==
    IF Contains(result, ActiveMarker)
    THEN IF Contains(result, RunningMarker) THEN Ok(Active("Running"))
         ELSE IF Contains(result, ExitedMarker) THEN Ok(Active("Exited"))
         ELSE IF Contains(result, WaitingMarker) THEN Ok(Active("Waiting"))
         ELSE Ok(Active("Dead"))
    ELSE IF Contains(result, DeadMarker) THEN Ok(Inactive("Dead"))
         ELSE IF Contains(result, ExitedMarker) THEN Ok(Inactive("Exited"))
         ELSE IF Contains(result, WaitingMarker) THEN Ok(Inactive("Waiting"))
         ELSE IF Contains(result, ResettingMarker) THEN Ok(Inactive("Resetting"))
         ELSE Ok(Inactive("Dead"))

\* mutant: the Inactive branch takes " (exited)" for Waiting and " (waiting)" for Exited
ParseState_Swapped(result) ==
    IF Contains(result, ActiveMarker)
    THEN IF Contains(result, RunningMarker) THEN Ok(Active("Running"))
         ELSE IF Contains(result, ExitedMarker) THEN Ok(Active("Exited"))
         ELSE IF Contains(result, WaitingMarker) THEN Ok(Active("Waiting"))
         ELSE IF Contains(result, DeadMarker) THEN Ok(Active("Dead"))
         ELSE Err(InvalidState(result))
    ELSE IF Contains(result, DeadMarker) THEN Ok(Inactive("Dead"))
         ELSE IF Contains(result, ExitedMarker) THEN Ok(Inactive("Waiting"))
         ELSE IF Contains(result, WaitingMarker) THEN Ok(Inactive("Exited"))
         ELSE IF Contains(result, ResettingMarker) THEN Ok(Inactive("Resetting"))
         ELSE Err(InvalidState(result))

\* mutant: the Active branch looks for " (dead)" before the other markers
ParseState_DeadFirst(result) ==
    IF Contains(result, ActiveMarker)
    THEN IF Contains(result, DeadMarker) THEN Ok(Active("Dead"))
         ELSE IF Contains(result, RunningMarker) THEN Ok(Active("Running"))
         ELSE IF Contains(result, ExitedMarker) THEN Ok(Active("Exited"))
         ELSE IF Contains(result, WaitingMarker) THEN Ok(Active("Waiting"))
         ELSE Err(InvalidState(result))
    ELSE IF Contains(result, DeadMarker) THEN Ok(Inactive("Dead"))
         ELSE IF Contains(result, ExitedMarker) THEN Ok(Inactive("Exited"))
         ELSE IF Contains(result, WaitingMarker) THEN Ok(Inactive("Waiting"))
         ELSE IF Contains(result, ResettingMarker) THEN Ok(Inactive("Resetting"))
         ELSE Err(InvalidState(result))

\* get_status, the classification of the status text
ParseState(result) ==
    IF Contains(result, ActiveMarker)
    THEN IF Contains(result, RunningMarker) THEN Ok(Active("Running"))
         ELSE IF Contains(result, ExitedMarker) THEN Ok(Active("Exited"))
         ELSE IF Contains(result, WaitingMarker) THEN Ok(Active("Waiting"))
         ELSE IF Contains(result, DeadMarker) THEN Ok(Active("Dead"))
         ELSE Err(InvalidState(result))
    ELSE IF Contains(result, DeadMarker) THEN Ok(Inactive("Dead"))
         ELSE IF Contains(result, ExitedMarker) THEN Ok(Inactive("Exited"))
         ELSE IF Contains(result, WaitingMarker) THEN Ok(Inactive("Waiting"))
         ELSE IF Contains(result, ResettingMarker) THEN Ok(Inactive("Resetting"))
         ELSE Err(InvalidState(result))

ServiceStatus(state, details, cmdline, pid, is_failed) ==
    [state |-> state, details |-> details, cmdline |-> cmdline, pid |-> pid,
     is_failed |-> is_failed]

\* the pid in the output of "systemctl show -p MainPID"
ParsePid(stdout) == ParseU32(Trim(TrimStartMatches(stdout, MainPidPrefix)))

\* mutant: the command line is the one the process had when the pid was queried
ReadProcCmdline_Snapshot(pid) ==
    IF gs_at[1].proc.alive /\ gs_at[1].proc.pid = pid
    THEN Ok(gs_at[1].proc.cmdline)
    ELSE Err("NotFound")

\* std::fs::read of /proc/<pid>/cmdline: the file exists while that process does
ReadProcCmdline(pid) ==
    IF native.proc.alive /\ native.proc.pid = pid
    THEN Ok(native.proc.cmdline)
    ELSE Err("NotFound")

\* no call has panicked: the process is still running
NoPanic == gs_result.tag # "Panic" /\ ctl_op.result.tag # "Panic"

\* The descriptor paths: the unit file, the drop-in directory and the config
\* file in it.  A file is "absent", "partial" (created, write_all failed) or
\* "complete".
FsEmpty == [unit |-> "absent", dropin_dir |-> FALSE, conf |-> "absent"]

NoResult == [tag |-> "NoResult"]

\* A finished controller operation: its name, the native commands it ran with
\* their results, and its result; with them the descriptor paths as the call found
\* them and whether the environment let every step of the call succeed.
OpRecord(op, log, result, before, permitted) ==
    [op |-> op, log |-> log, result |-> result, fs_before |-> before,
     permitted |-> permitted]

NoOp == OpRecord("none", <<>>, NoResult, FsEmpty, TRUE)

\* no get_status call came before
NoPrev == [result |-> NoResult, at |-> <<>>]

\* mutant: a flag that, once a call has gone through, stays set
IsFailedFlag_Latched(r) ==
    \/ gs_prev.result.tag = "Ok"
    \/ (r.tag = "Ok" /\ Contains(r.val, FailedWord))

\* is_failed: the output of the is-failed query names "failed"; false when the
\* query returned an error
IsFailedFlag(r) == IF r.tag = "Ok" THEN Contains(r.val, FailedWord) ELSE FALSE

\* mutant: a failed pid query is taken for pid 0 instead of being returned
PidQueryResult_Swallowed(r) ==
    IF r.tag = "Err" THEN Ok(<<"0">>)
    ELSE IF r.tag = "Panic" THEN r
    ELSE IF ParsePid(r.val).tag = "Err" THEN Panic("unwrap on ParseIntError")
    ELSE Ok(ParsePid(r.val).val)

\* the pid query: `?` returns the executor's error, unwrap() panics on a pid that
\* does not parse.  Ok(pid), or the Err or Panic that ends get_status.
PidQueryResult(r) ==
    IF r.tag # "Ok" THEN r
    ELSE IF ParsePid(r.val).tag = "Err" THEN Panic("unwrap on ParseIntError")
    ELSE Ok(ParsePid(r.val).val)

\* get_status, first query: the pid
GsQueryPid ==
    /\ gs_pc \in {"idle", "done"}
    /\ NoPanic
    /\ LET r == SystemctlExecuteWithResult(ArgsShowPid, native.pid_q)
           p == PidQueryResult(r)
       IN  /\ gs_log' = <<[args |-> ArgsShowPid, res |-> r]>>
           /\ gs_at' = <<native>>
           /\ gs_prev' = [result |-> gs_result, at |-> gs_at]
           /\ gs_is_failed' = FALSE
           /\ gs_cmdline' = <<>>
           /\ IF p.tag = "Ok"
              THEN gs_pid' = p.val /\ gs_pc' = "failed" /\ gs_result' = NoResult
              ELSE gs_pid' = <<>> /\ gs_pc' = "done" /\ gs_result' = p
    /\ ctl_op' = NoOp
    /\ UNCHANGED <<native, config, fs, ex_vars, d_vars>>

\* get_status, second query: the failed flag; an error of the query reads as false
GsQueryFailed ==
    /\ gs_pc = "failed"
    /\ LET r == SystemctlExecuteWithResult(ArgsIsFailed, native.failed_q)
       IN  /\ gs_log' = Append(gs_log, [args |-> ArgsIsFailed, res |-> r])
           /\ IF r.tag = "Panic"
              THEN gs_is_failed' = FALSE /\ gs_pc' = "done" /\ gs_result' = r
              ELSE /\ gs_is_failed' = IsFailedFlag(r)
                   /\ gs_pc' = "cmdline"
                   /\ gs_result' = gs_result
    /\ gs_at' = Append(gs_at, native)
    /\ UNCHANGED <<native, config, fs, ctl_op, gs_pid, gs_cmdline, gs_prev, ex_vars, d_vars>>

\* get_status, the command line of the process: both unwrap()s panic
GsReadCmdline ==
    /\ gs_pc = "cmdline"
    /\ LET f == ReadProcCmdline(gs_pid)
           c == IF f.tag = "Ok" THEN FromUtf8(f.val) ELSE f
       IN  IF f.tag = "Err"
           THEN gs_cmdline' = <<>> /\ gs_pc' = "done" /\ gs_result' = Panic("unwrap on io::Error")
           ELSE IF c.tag = "Err"
           THEN gs_cmdline' = <<>> /\ gs_pc' = "done" /\ gs_result' = Panic("unwrap on FromUtf8Error")
           ELSE gs_cmdline' = c.val /\ gs_pc' = "status" /\ gs_result' = gs_result
    /\ gs_at' = Append(gs_at, native)
    /\ UNCHANGED <<native, config, fs, ctl_op, gs_pid, gs_is_failed, gs_log, gs_prev,
                   ex_vars, d_vars>>

\* get_status, third query: the status text, and its classification
GsQueryStatus ==
    /\ gs_pc = "status"
    /\ LET r == SystemctlExecuteWithResult(ArgsStatus, native.status_q)
           st == IF r.tag = "Ok" THEN ParseState(r.val) ELSE r
       IN  /\ gs_log' = Append(gs_log, [args |-> ArgsStatus, res |-> r])
           /\ gs_result' = IF st.tag = "Ok"
                           THEN Ok(ServiceStatus(st.val, r.val, gs_cmdline, gs_pid, gs_is_failed))
                           ELSE st
    /\ gs_pc' = "done"
    /\ gs_at' = Append(gs_at, native)
    /\ UNCHANGED <<native, config, fs, ctl_op, gs_pid, gs_is_failed, gs_cmdline, gs_prev,
                   ex_vars, d_vars>>

---------------------------------------------------------------------------
(* create, delete, start, stop.                                            *)

\* what the environment lets a file or directory operation do
IoOutcomes == {"ok", "create_failed", "write_failed"}

IoError(what, path) == [msg |-> what, path |-> path]

LogEntry(args, res) == [args |-> args, res |-> res]

\* File::create(&path).and_then(|mut file| file.write_all(..)): the file state after
WriteFile(before, io) ==
    IF io = "create_failed" THEN before
    ELSE IF io = "write_failed" THEN "partial"
    ELSE "complete"

\* write_service_config: the file system after it, and its result
WriteServiceConfig(f, cfg, exe_ok, unit_io, mkdir_ok, conf_io) ==
    IF ~exe_ok
    THEN [fs |-> f, result |-> Err(IoError("Failed to read /proc/self/exe", "/proc/self/exe"))]
    ELSE LET f1 == [f EXCEPT !.unit = WriteFile(f.unit, unit_io)]
         IN  IF unit_io # "ok"
             THEN [fs |-> f1, result |-> Err(IoError("Failed to write", "unit"))]
             ELSE IF cfg.tag = "None"
             THEN [fs |-> f1, result |-> Ok(Unit)]
             ELSE IF f1.dropin_dir \/ ~mkdir_ok
             THEN [fs |-> f1, result |-> Err(IoError("Failed to create", "conf"))]
             ELSE LET f2 == [f1 EXCEPT !.dropin_dir = TRUE,
                                       !.conf = WriteFile(f1.conf, conf_io)]
                  IN  IF conf_io # "ok"
                      THEN [fs |-> f2, result |-> Err(IoError("Failed to write", "conf"))]
                      ELSE [fs |-> f2, result |-> Ok(Unit)]

\* mutant: the unit is enabled before the manager has reloaded its units
SystemdInstallDaemon_EnableFirst(o1, o2) ==
    LET r1 == SystemctlExecute(ArgsEnable, o1)
        r2 == SystemctlExecute(ArgsDaemonReload, o2)
    IN  IF r1.tag # "Ok"
        THEN [log |-> <<LogEntry(ArgsEnable, r1)>>, result |-> r1]
        ELSE [log |-> <<LogEntry(ArgsEnable, r1), LogEntry(ArgsDaemonReload, r2)>>,
              result |-> r2]

\* systemd_install_daemon: the commands it ran and its result
SystemdInstallDaemon(o1, o2) ==
    LET r1 == SystemctlExecute(ArgsDaemonReload, o1)
        r2 == SystemctlExecute(ArgsEnable, o2)
    IN  IF r1.tag # "Ok"
        THEN [log |-> <<LogEntry(ArgsDaemonReload, r1)>>, result |-> r1]
        ELSE [log |-> <<LogEntry(ArgsDaemonReload, r1), LogEntry(ArgsEnable, r2)>>,
              result |-> r2]

\* systemd_uninstall_daemon: errors of daemon-reload and reset-failed are logged
\* and dropped (a panic of the executor is not an error value and is not dropped)
SystemdUninstallDaemon(o1, o2, o3) ==
    LET r1 == SystemctlExecute(ArgsDisable, o1)
        r2 == SystemctlExecute(ArgsDaemonReload, o2)
        r3 == SystemctlExecute(ArgsResetFailed, o3)
    IN  IF r1.tag # "Ok"
        THEN [log |-> <<LogEntry(ArgsDisable, r1)>>, result |-> r1]
        ELSE IF r2.tag = "Panic"
        THEN [log |-> <<LogEntry(ArgsDisable, r1), LogEntry(ArgsDaemonReload, r2)>>,
              result |-> r2]
        ELSE [log |-> <<LogEntry(ArgsDisable, r1), LogEntry(ArgsDaemonReload, r2),
                        LogEntry(ArgsResetFailed, r3)>>,
              result |-> IF r3.tag = "Panic" THEN r3 ELSE Ok(Unit)]

\* outcomes of a native command the controller operations draw from
CtlOutcomes ==
    {SpawnFailed("NotFound"), Exited(0, <<>>, <<>>),
     Exited(1, <<>>, <<"n", "o", " ", "u", "n", "i", "t", "\n">>), Signaled(<<>>, <<>>)}

\* the locals of get_status, cleared when another operation runs
GsCleared ==
    /\ gs_pc' = "idle"
    /\ gs_pid' = <<>>
    /\ gs_is_failed' = FALSE
    /\ gs_cmdline' = <<>>
    /\ gs_log' = <<>>
    /\ gs_result' = NoResult
    /\ gs_at' = <<>>
    /\ gs_prev' = NoPrev

CtlReady == gs_pc \in {"idle", "done"} /\ NoPanic

\* What the environment does to one call of create.  An outcome is drawn only for
\* a step that can be reached: after a failure the later ones keep the first value.
CreateEnvs ==
    {e \in [exe_ok : BOOLEAN, unit_io : IoOutcomes, mkdir_ok : BOOLEAN,
            conf_io : IoOutcomes, o1 : CtlOutcomes, o2 : CtlOutcomes] :
        /\ (~e.exe_ok => e.unit_io = "ok")
        /\ (~e.exe_ok \/ e.unit_io # "ok" => e.mkdir_ok)
        /\ (~e.exe_ok \/ e.unit_io # "ok" \/ ~e.mkdir_ok => e.conf_io = "ok")
        /\ (~e.exe_ok \/ e.unit_io # "ok" \/ ~e.mkdir_ok \/ e.conf_io # "ok"
               => e.o1 = Exited(0, <<>>, <<>>))
        /\ (~Success(e.o1) => e.o2 = Exited(0, <<>>, <<>>))}

\* the environment lets every file operation and command of the create succeed
CreatePermitted(e) ==
    /\ e.exe_ok /\ e.unit_io = "ok" /\ e.mkdir_ok /\ e.conf_io = "ok"
    /\ Success(e.o1) /\ Success(e.o2)

\* ControllerInterface::create
Create ==
    /\ CtlReady
    /\ \E e \in CreateEnvs :
          LET w == WriteServiceConfig(fs, config, e.exe_ok, e.unit_io, e.mkdir_ok, e.conf_io)
              i == SystemdInstallDaemon(e.o1, e.o2)
          IN  /\ fs' = w.fs
              /\ ctl_op' = IF w.result.tag # "Ok"
                           THEN OpRecord("create", <<>>, w.result, fs, CreatePermitted(e))
                           ELSE OpRecord("create", i.log, i.result, fs, CreatePermitted(e))
    /\ GsCleared
    /\ UNCHANGED <<native, config, ex_vars, d_vars>>

\* What the environment does to one call of delete, drawn like CreateEnvs.
DeleteEnvs ==
    {e \in [o1 : CtlOutcomes, o2 : CtlOutcomes, o3 : CtlOutcomes,
            rm_file_ok : BOOLEAN, rm_dir_ok : BOOLEAN] :
        /\ (~Success(e.o1) => e.o2 = Exited(0, <<>>, <<>>))
        /\ (~Success(e.o1) \/ e.o2.kind = "signaled" => e.o3 = Exited(0, <<>>, <<>>))
        /\ (~Success(e.o1) \/ e.o2.kind = "signaled" \/ e.o3.kind = "signaled"
               => e.rm_file_ok /\ e.rm_dir_ok)}

\* the environment lets every command and removal of the delete succeed
DeletePermitted(e) ==
    /\ Success(e.o1) /\ Success(e.o2) /\ Success(e.o3)
    /\ e.rm_file_ok /\ e.rm_dir_ok

\* ControllerInterface::delete
Delete ==
    /\ CtlReady
    /\ \E e \in DeleteEnvs :
          LET u == SystemdUninstallDaemon(e.o1, e.o2, e.o3)
          IN  /\ ctl_op' = OpRecord("delete", u.log, u.result, fs, DeletePermitted(e))
              /\ fs' = IF u.result.tag # "Ok" THEN fs
                       ELSE [unit |-> IF e.rm_file_ok THEN "absent" ELSE fs.unit,
                             dropin_dir |-> IF e.rm_dir_ok THEN FALSE ELSE fs.dropin_dir,
                             conf |-> IF e.rm_dir_ok THEN "absent" ELSE fs.conf]
    /\ GsCleared
    /\ UNCHANGED <<native, config, ex_vars, d_vars>>

\* ControllerInterface::start
Start ==
    /\ CtlReady
    /\ \E o \in CtlOutcomes :
          LET r == SystemctlExecute(ArgsStart, o)
          IN  ctl_op' = OpRecord("start", <<LogEntry(ArgsStart, r)>>, r, fs, Success(o))
    /\ GsCleared
    /\ UNCHANGED <<native, config, fs, ex_vars, d_vars>>

\* ControllerInterface::stop
Stop ==
    /\ CtlReady
    /\ \E o \in CtlOutcomes :
          LET r == SystemctlExecute(ArgsStop, o)
          IN  ctl_op' = OpRecord("stop", <<LogEntry(ArgsStop, r)>>, r, fs, Success(o))
    /\ GsCleared
    /\ UNCHANGED <<native, config, fs, ex_vars, d_vars>>

---------------------------------------------------------------------------
(* The session monitor and the event dispatcher.                           *)

\* ServiceEvent
EvStop == [type |-> "Stop"]
Custom == [type |-> "Custom"]
SessionConnect(id) == [type |-> "SessionConnect", session |-> id]
SessionDisconnect(id) == [type |-> "SessionDisconnect", session |-> id]

\* identifiers of login sessions
SessionIds == {"s1", "s2"}

\* what login_session::get_active_session() can give
QueryResults ==
    {Err("no active session")} \cup {Ok([identifier |-> i]) : i \in SessionIds}

\* mutant: a failed query leaves the recorded session in place
ToOption_KeepLast(q) == IF q.tag = "Ok" THEN Some(q.val) ELSE current_session

\* match get_active_session() { Ok(s) => Some(s), Err(e) => None }
ToOption(q) == IF q.tag = "Ok" THEN Some(q.val) ELSE None

\* the three holders of a Sender: the monitor callback, the ctrlc handler, service_main
Producers == {"monitor", "ctrlc", "main"}

\* session_changed
SessionChanged(cur, act) ==
    IF cur.tag = "Some" /\ act.tag = "Some" THEN cur.val # act.val
    ELSE IF cur.tag = "None" /\ act.tag = "None" THEN FALSE
    ELSE TRUE

\* mutant: the disconnect of the old session is announced for the new one
DisconnectEvents_New(cur, act) ==
    IF SessionChanged(cur, act) /\ cur.tag = "Some"
    THEN <<SessionDisconnect(IF act.tag = "Some" THEN act.val.identifier ELSE cur.val.identifier)>>
    ELSE <<>>

\* mutant: the active session is announced on every notification
ConnectEvents_Always(cur, act) ==
    IF act.tag = "Some"
    THEN <<SessionConnect(act.val.identifier)>>
    ELSE <<>>

\* the callback's first send: SessionConnect of the new session
ConnectEvents(cur, act) ==
    IF SessionChanged(cur, act) /\ act.tag = "Some"
    THEN <<SessionConnect(act.val.identifier)>>
    ELSE <<>>

\* the callback's second send: SessionDisconnect of the recorded session
DisconnectEvents(cur, act) ==
    IF SessionChanged(cur, act) /\ cur.tag = "Some"
    THEN <<SessionDisconnect(cur.val.identifier)>>
    ELSE <<>>

\* mutant: a channel that hands out the newest message first
ChannelPush_Lifo(q, item) == <<item>> \o q

\* mpsc::Sender::send on a channel whose Receiver exists: the message joins the buffer
ChannelPush(q, item) == Append(q, item)

\* tx.send(e) by producer src: the buffer after.  With the Receiver dropped send
\* returns Err, which every caller ignores.
SendOne(q, src, e) ==
    IF rx_alive THEN ChannelPush(q, [src |-> src, ev |-> e]) ELSE q

\* the sends of evs, one after the other
RECURSIVE SendAll(_, _, _)
SendAll(q, src, evs) ==
    IF evs = <<>> THEN q ELSE SendAll(SendOne(q, src, Head(evs)), src, Tail(evs))

\* the record of those send calls
Logged(src, evs) ==
    [sends EXCEPT ![src] = @ \o [i \in 1..Len(evs) |-> [ev |-> evs[i], ok |-> rx_alive]]]

\* run_monitor, as dispatch calls it: Monitor::new, the first query, monitor.init;
\* dispatch panics (expect) when it returns an error
RunMonitor ==
    /\ d_pc = "start"
    /\ \E new_ok \in BOOLEAN, q \in QueryResults, init_ok \in BOOLEAN :
          IF ~new_ok
          THEN /\ d_pc' = "panicked"
               /\ UNCHANGED <<current_session, active_session, changes, registered,
                              last_query, startup_session>>
          ELSE /\ last_query' = q
               /\ startup_session' = ToOption(q)
               /\ current_session' = ToOption(q)
               /\ active_session' = ToOption(q)
               /\ changes' = 0
               /\ d_pc' = IF init_ok THEN "monitored" ELSE "panicked"
               /\ registered' = IF init_ok THEN Append(registered, "monitor")
                                 ELSE registered
    /\ UNCHANGED <<queue, rx_alive, received, sm_pc, sends, notified, interrupts,
                   cb_pc, cb_sent, ex_vars, ctl_vars>>

\* mutant: dispatch goes on without an interrupt handler when set_handler fails
SetHandler_Degraded ==
    /\ d_pc = "monitored"
    /\ \E ok \in BOOLEAN :
          /\ d_pc' = "running"
          /\ sm_pc' = "loop"
          /\ registered' = IF ok THEN Append(registered, "ctrlc") ELSE registered
    /\ UNCHANGED <<current_session, active_session, queue, rx_alive, received, sends,
                   changes, notified, interrupts, cb_pc, cb_sent, last_query, startup_session, ex_vars, ctl_vars>>

\* dispatch: ctrlc::set_handler (expect), then service_main is called
SetHandler ==
    /\ d_pc = "monitored"
    /\ \E ok \in BOOLEAN :
          IF ok
          THEN /\ d_pc' = "running"
               /\ sm_pc' = "loop"
               /\ registered' = Append(registered, "ctrlc")
          ELSE /\ d_pc' = "panicked"
               /\ UNCHANGED <<sm_pc, registered>>
    /\ UNCHANGED <<current_session, active_session, queue, rx_alive, received, sends,
                   changes, notified, interrupts, cb_pc, cb_sent, last_query, startup_session, ex_vars, ctl_vars>>

\* the monitor is subscribed: from monitor.init until dispatch's _monitor goes out
\* of scope
Subscribed == d_pc \in {"monitored", "running"}

\* the callback, on a notification: the query of the active session
CbQuery ==
    /\ Subscribed
    /\ cb_pc = "idle"
    /\ notified < MaxNotify
    /\ \E q \in QueryResults :
          /\ last_query' = q
          /\ active_session' = ToOption(q)
          /\ changes' = IF ToOption(q) = active_session THEN changes ELSE changes + 1
    /\ notified' = notified + 1
    /\ cb_pc' = "connect"
    /\ cb_sent' = <<>>
    /\ UNCHANGED <<d_pc, current_session, queue, rx_alive, received, sm_pc, sends,
                   interrupts, registered, startup_session, ex_vars, ctl_vars>>

\* the callback: session_changed, and the send of SessionConnect
CbConnect ==
    /\ cb_pc = "connect"
    /\ d_pc # "panicked"
    /\ LET evs == ConnectEvents(current_session, active_session)
       IN  /\ queue' = SendAll(queue, "monitor", evs)
           /\ sends' = Logged("monitor", evs)
           /\ cb_sent' = cb_sent \o evs
    /\ cb_pc' = "disconnect"
    /\ UNCHANGED <<d_pc, current_session, active_session, rx_alive, received, sm_pc,
                   changes, notified, interrupts, registered, last_query, startup_session, ex_vars, ctl_vars>>

\* mutant: the slot keeps the session recorded at startup
CbDisconnect_NoUpdate ==
    /\ cb_pc = "disconnect"
    /\ d_pc # "panicked"
    /\ LET evs == DisconnectEvents(current_session, active_session)
       IN  /\ queue' = SendAll(queue, "monitor", evs)
           /\ sends' = Logged("monitor", evs)
           /\ cb_sent' = cb_sent \o evs
    /\ cb_pc' = "idle"
    /\ UNCHANGED <<d_pc, current_session, active_session, rx_alive, received, sm_pc,
                   changes, notified, interrupts, registered, last_query, startup_session, ex_vars, ctl_vars>>

\* the callback: the send of SessionDisconnect, and the update of the slot
CbDisconnect ==
    /\ cb_pc = "disconnect"
    /\ d_pc # "panicked"
    /\ LET evs == DisconnectEvents(current_session, active_session)
       IN  /\ queue' = SendAll(queue, "monitor", evs)
           /\ sends' = Logged("monitor", evs)
           /\ cb_sent' = cb_sent \o evs
    /\ current_session' = active_session
    /\ cb_pc' = "idle"
    /\ UNCHANGED <<d_pc, active_session, rx_alive, received, sm_pc,
                   changes, notified, interrupts, registered, last_query, startup_session, ex_vars, ctl_vars>>

\* The Sender handles that exist: dispatch's own tx until it is moved into the
\* ctrlc handler, the clone in the monitor's closure while the monitor is
\* subscribed, the handler's tx once it is registered (a handler is never
\* removed), and the _tx service_main owns until it returns.
Senders ==
    (IF d_pc \in {"start", "monitored"} THEN {"dispatch"} ELSE {})
    \cup (IF Subscribed THEN {"monitor"} ELSE {})
    \cup (IF "ctrlc" \in Range(registered) THEN {"ctrlc"} ELSE {})
    \cup (IF sm_pc \in {"loop", "break"} THEN {"main"} ELSE {})

\* mutant: a handler that swallows the interrupt
InterruptEvents_None == <<>>

\* mutant: the handler sends Stop twice
InterruptEvents_Twice == <<EvStop, EvStop>>

\* what the ctrlc handler sends on an interrupt
InterruptEvents == <<EvStop>>

\* the ctrlc handler, on an interrupt signal
Interrupt ==
    /\ d_pc \in {"running", "returned"}
    /\ interrupts < MaxInterrupts
    /\ interrupts' = interrupts + 1
    /\ queue' = SendAll(queue, "ctrlc", InterruptEvents)
    /\ sends' = Logged("ctrlc", InterruptEvents)
    /\ UNCHANGED <<d_pc, current_session, active_session, rx_alive, received, sm_pc,
                   changes, notified, cb_pc, cb_sent, registered, last_query, startup_session, ex_vars, ctl_vars>>

\* mpsc::Receiver::recv: the buffer after the head was taken
ChannelPop(q) == Tail(q)

\* service_main (the documented loop): rx.recv(), and break on Stop.  recv blocks
\* while the buffer is empty and a Sender exists.
SmRecv ==
    /\ sm_pc = "loop"
    /\ queue # <<>>
    /\ received' = Append(received, Head(queue))
    /\ queue' = ChannelPop(queue)
    /\ sm_pc' = IF Head(queue).ev = EvStop THEN "break" ELSE "loop"
    /\ UNCHANGED <<d_pc, current_session, active_session, rx_alive, sends, changes,
                   notified, interrupts, cb_pc, cb_sent, registered, last_query, startup_session, ex_vars, ctl_vars>>

\* the events service_main may send on the sender handle dispatch gives it
OwnEvents == {EvStop, Custom}

\* service_main sends an event of its own
SmSend ==
    /\ sm_pc = "loop"
    /\ Len(sends["main"]) < MaxOwnSends
    /\ \E e \in OwnEvents :
          /\ queue' = SendOne(queue, "main", e)
          /\ sends' = Logged("main", <<e>>)
    /\ UNCHANGED <<d_pc, current_session, active_session, rx_alive, received, sm_pc,
                   changes, notified, interrupts, cb_pc, cb_sent, registered, last_query, startup_session, ex_vars, ctl_vars>>

\* service_main returns, and dispatch with it: the Receiver is dropped with what
\* the buffer still holds
SmReturn ==
    /\ sm_pc = "break"
    /\ sm_pc' = "returned"
    /\ d_pc' = "returned"
    /\ rx_alive' = FALSE
    /\ queue' = <<>>
    /\ UNCHANGED <<current_session, active_session, received, sends, changes,
                   notified, interrupts, cb_pc, cb_sent, registered, last_query, startup_session, ex_vars, ctl_vars>>

---------------------------------------------------------------------------
(* Initial states and specifications.                                      *)

\* the status texts the model draws from: a head, then up to MaxFrags fragments
Heads ==
    {<<"A", "c", "t", "i", "v", "e", ":", " ", "a", "c", "t", "i", "v", "e">>,
     <<"A", "c", "t", "i", "v", "e", ":", " ", "i", "n", "a", "c", "t", "i", "v", "e">>,
     <<"A", "c", "t", "i", "v", "e", ":", " ", "f", "a", "i", "l", "e", "d">>}

Frags ==
    {RunningMarker, ExitedMarker, WaitingMarker, DeadMarker, ResettingMarker,
     <<"(", "r", "u", "n", "n", "i", "n", "g", ")">>, <<BadByte>>}

RECURSIVE FragTexts(_)
FragTexts(n) ==
    IF n = 0 THEN {<<>>}
    ELSE FragTexts(n - 1) \cup {t \o f : t \in FragTexts(n - 1), f \in Frags}

StatusTexts == {h \o t : h \in Heads, t \in FragTexts(MaxFrags)}

NoUnit == <<"n", "o", " ", "u", "n", "i", "t", "\n">>

\* answers of "systemctl show -p MainPID"
PidStdouts ==
    {<<"M", "a", "i", "n", "P", "I", "D", "=", "1", "2", "\n">>,
     <<"M", "a", "i", "n", "P", "I", "D", "=", "0", "\n">>,
     <<"M", "a", "i", "n", "P", "I", "D", "=", "a", "b", "c", "\n">>,
     <<"M", "a", "i", "n", "P", "I", "D", "=", "4", "2", "9", "4", "9", "6", "7", "2", "9", "6", "\n">>}

PidOutcomes ==
    {SpawnFailed("NotFound"), Signaled(<<>>, <<>>), Exited(1, <<>>, NoUnit)}
    \cup {Exited(0, o, <<>>) : o \in PidStdouts}

\* answers of "systemctl is-failed": exit code 0 and "failed" for a failed unit,
\* a non-zero exit code and the unit's state otherwise
FailedOutcomes ==
    {SpawnFailed("NotFound"), Signaled(<<>>, <<>>),
     Exited(0, <<"f", "a", "i", "l", "e", "d", "\n">>, <<>>),
     Exited(1, <<"i", "n", "a", "c", "t", "i", "v", "e", "\n">>, <<>>)}

\* /proc: no process, or process 12 with a command line that is or is not UTF-8
NoProc == [alive |-> FALSE, pid |-> <<>>, cmdline |-> <<>>]
Proc(pid, cmdline) == [alive |-> TRUE, pid |-> pid, cmdline |-> cmdline]
Procs ==
    {NoProc, Proc(<<"1", "2">>, <<"/", "s", "v", "c">>), Proc(<<"1", "2">>, <<"/", BadByte>>)}

StatusOutcomes ==
    {SpawnFailed("NotFound"), Signaled(<<>>, <<>>), Exited(3, <<>>, NoUnit)}
    \cup {Exited(0, t, <<>>) : t \in StatusTexts}

Natives ==
    [pid_q : PidOutcomes, failed_q : FailedOutcomes, proc : Procs, status_q : StatusOutcomes]

\* the natives the controller operations are run against
CtlStatusOutcomes ==
    {SpawnFailed("NotFound"), Signaled(<<>>, <<>>), Exited(3, <<>>, NoUnit),
     Exited(0, <<"a", "c", "t", "i", "v", "e", " ", "(", "r", "u", "n", "n", "i", "n", "g", ")">>, <<>>)}

\* An answer is drawn only for a query get_status can reach: after a query that
\* ends the call the later ones keep the first value.
CtlNatives ==
    {n \in [pid_q : {SpawnFailed("NotFound"), Signaled(<<>>, <<>>), Exited(1, <<>>, NoUnit),
                     Exited(0, <<"M", "a", "i", "n", "P", "I", "D", "=", "1", "2", "\n">>, <<>>)},
            failed_q : FailedOutcomes,
            proc : {NoProc, Proc(<<"1", "2">>, <<"/", "s", "v", "c">>)},
            status_q : CtlStatusOutcomes] :
        /\ (~Success(n.pid_q) => n.failed_q = SpawnFailed("NotFound"))
        /\ (~Success(n.pid_q) \/ n.failed_q.kind = "signaled" => n.proc = NoProc)
        /\ (~Success(n.pid_q) \/ n.failed_q.kind = "signaled" \/ ~n.proc.alive
               => n.status_q = SpawnFailed("NotFound"))}

DefaultNative ==
    [pid_q |-> Exited(0, <<"M", "a", "i", "n", "P", "I", "D", "=", "1", "2", "\n">>, <<>>),
     failed_q |-> Exited(1, <<"i", "n", "a", "c", "t", "i", "v", "e", "\n">>, <<>>),
     proc |-> Proc(<<"1", "2">>, <<"/", "s", "v", "c">>),
     status_q |-> Exited(0, <<"a", "c", "t", "i", "v", "e", " ", "(", "r", "u", "n", "n", "i", "n", "g", ")">>, <<>>)]

\* LinuxController.config: None after new(), or set by the caller
Configs == {None, Some(<<"[", "S", "e", "r", "v", "i", "c", "e", "]">>)}

ExIdle ==
    /\ ex_args = ArgsStatus
    /\ ex_out = Exited(0, <<>>, <<>>)
    /\ ex_fn = "none"
    /\ ex_res = NoResult

GsIdle ==
    /\ gs_pc = "idle"
    /\ gs_pid = <<>>
    /\ gs_is_failed = FALSE
    /\ gs_cmdline = <<>>
    /\ gs_log = <<>>
    /\ gs_result = NoResult
    /\ gs_at = <<>>
    /\ gs_prev = NoPrev

CtlIdle ==
    /\ native = DefaultNative
    /\ config = None
    /\ fs = FsEmpty
    /\ ctl_op = NoOp
    /\ GsIdle

\* dispatch is entered: the channel of line 376 exists and is empty
DispatchStart ==
    /\ d_pc = "start"
    /\ current_session = None
    /\ active_session = None
    /\ queue = <<>>
    /\ rx_alive = TRUE
    /\ received = <<>>
    /\ sm_pc = "not_started"
    /\ sends = [p \in Producers |-> <<>>]
    /\ changes = 0
    /\ notified = 0
    /\ interrupts = 0
    /\ cb_pc = "idle"
    /\ cb_sent = <<>>
    /\ registered = <<>>
    /\ last_query = NoResult
    /\ startup_session = None

\* ---- the dispatcher: one run of dispatch
Init == ExIdle /\ CtlIdle /\ DispatchStart

Next ==
    \/ RunMonitor
    \/ SetHandler
    \/ CbQuery
    \/ CbConnect
    \/ CbDisconnect
    \/ Interrupt
    \/ SmRecv
    \/ SmSend
    \/ SmReturn

Spec == Init /\ [][Next]_vars

\* ---- the dispatcher with the documented service_main, which only receives, and
\* ---- a scheduler that lets the service_main thread run whenever it can
NextLive ==
    \/ RunMonitor
    \/ SetHandler
    \/ CbQuery
    \/ CbConnect
    \/ CbDisconnect
    \/ Interrupt
    \/ SmRecv
    \/ SmReturn

SpecLive == Init /\ [][NextLive]_vars /\ WF_vars(SmRecv) /\ WF_vars(SmReturn)

\* ---- the executor: one invocation, on any argument vector and process outcome
InitExec ==
    /\ ex_args \in ArgVectors
    /\ ex_out \in ProcessOutcomes
    /\ ex_fn = "none"
    /\ ex_res = NoResult
    /\ CtlIdle
    /\ DispatchStart

NextExec == ExecWithResult \/ ExecUnit

SpecExec == InitExec /\ [][NextExec]_vars

\* ---- get_status, against any answers of the native manager and /proc
InitStatus ==
    /\ ExIdle
    /\ native \in Natives
    /\ config = None
    /\ fs = FsEmpty
    /\ ctl_op = NoOp
    /\ GsIdle
    /\ DispatchStart

NextStatus == GsQueryPid \/ GsQueryFailed \/ GsReadCmdline \/ GsQueryStatus

SpecStatus == InitStatus /\ [][NextStatus]_vars

\* The service as get_status can meet it: running as process 12; restarted as
\* process 34, its main process gone again; dead after a failure.
RestartedNative ==
    [pid_q |-> Exited(0, <<"M", "a", "i", "n", "P", "I", "D", "=", "3", "4", "\n">>, <<>>),
     failed_q |-> Exited(1, <<"a", "c", "t", "i", "v", "e", "\n">>, <<>>),
     proc |-> Proc(<<"3", "4">>, <<"/", "s", "v", "c">>),
     status_q |-> Exited(0, <<"a", "c", "t", "i", "v", "e", " ", "(", "e", "x", "i", "t", "e", "d", ")">>, <<>>)]

FailedNative ==
    [pid_q |-> Exited(0, <<"M", "a", "i", "n", "P", "I", "D", "=", "0", "\n">>, <<>>),
     failed_q |-> Exited(0, <<"f", "a", "i", "l", "e", "d", "\n">>, <<>>),
     proc |-> NoProc,
     status_q |-> Exited(3, <<"i", "n", "a", "c", "t", "i", "v", "e", " ", "(", "d", "e", "a", "d", ")">>, <<>>)]

RaceNatives == {DefaultNative, RestartedNative, FailedNative}

\* The service between two steps of get_status: systemd restarts it, it exits, it
\* fails.  get_status holds no lock on the unit, so this can happen at any time.
NativeChange ==
    /\ NoPanic
    /\ \E n \in RaceNatives \ {native} : native' = n
    /\ UNCHANGED <<config, fs, ctl_op, gs_pc, gs_pid, gs_is_failed, gs_cmdline, gs_log,
                   gs_result, gs_at, gs_prev, ex_vars, d_vars>>

\* ---- get_status while the service changes under it
InitRace ==
    /\ ExIdle
    /\ native \in RaceNatives
    /\ config = None
    /\ fs = FsEmpty
    /\ ctl_op = NoOp
    /\ GsIdle
    /\ DispatchStart

NextRace ==
    \/ GsQueryPid
    \/ GsQueryFailed
    \/ GsReadCmdline
    \/ GsQueryStatus
    \/ NativeChange

SpecRace == InitRace /\ [][NextRace]_vars

\* ---- the controller: its operations one after the other
InitCtl ==
    /\ ExIdle
    /\ native \in CtlNatives
    /\ config \in Configs
    /\ fs = FsEmpty
    /\ ctl_op = NoOp
    /\ GsIdle
    /\ DispatchStart

NextCtl ==
    \/ Create
    \/ Delete
    \/ Start
    \/ Stop
    \/ GsQueryPid
    \/ GsQueryFailed
    \/ GsReadCmdline
    \/ GsQueryStatus

SpecCtl == InitCtl /\ [][NextCtl]_vars

---------------------------------------------------------------------------
(* The session monitor's transition table.                                 *)

\* the events the specification's table gives for (previous, current)
TransitionTable(previous, current) ==
    IF previous.tag = "None" /\ current.tag = "None" THEN <<>>
    ELSE IF previous.tag = "None" THEN <<SessionConnect(current.val.identifier)>>
    ELSE IF current.tag = "None" THEN <<SessionDisconnect(previous.val.identifier)>>
    ELSE IF previous.val.identifier = current.val.identifier THEN <<>>
    ELSE <<SessionConnect(current.val.identifier),
           SessionDisconnect(previous.val.identifier)>>

\* C1: a callback that completes has sent exactly the events of the transition
\* table for the recorded session (the slot before the step) and the session it
\* queried: nothing, one SessionConnect, one SessionDisconnect, or SessionConnect
\* of the new session followed by SessionDisconnect of the old one.
C1_TransitionTable ==
    [][(cb_pc = "disconnect" /\ cb_pc' = "idle")
          => cb_sent' = TransitionTable(current_session, active_session)]_vars

\* C1 witness: a callback has completed a direct switch from one session to another
C1_Witness ==
    /\ cb_pc = "idle"
    /\ notified >= 1
    /\ Len(cb_sent) = 2
    /\ cb_sent[1].type = "SessionConnect"
    /\ cb_sent[2].type = "SessionDisconnect"
    /\ cb_sent[1].session # cb_sent[2].session
    /\ current_session = Some([identifier |-> cb_sent[1].session])

---------------------------------------------------------------------------
(* The channel.                                                            *)

\* the events of producer p among the messages of seq, in order
From(seq, p) ==
    LET own == SelectSeq(seq, LAMBDA m : m.src = p)
    IN  [i \in 1..Len(own) |-> own[i].ev]

\* the events producer p sent while the Receiver existed, in order
OkEvents(p) ==
    LET ok == SelectSeq(sends[p], LAMBDA x : x.ok)
    IN  [i \in 1..Len(ok) |-> ok[i].ev]

IsPrefix(a, b) == Len(a) <= Len(b) /\ SubSeq(b, 1, Len(a)) = a

Events(seq) == [i \in 1..Len(seq) |-> seq[i].ev]

IsSessionEvent(e) == e.type \in {"SessionConnect", "SessionDisconnect"}

\* C5: with no change of the queried session the monitor sends nothing; every
\* interrupt makes the handler send Stop once and nothing else, and while the
\* Receiver exists those Stops are in the channel or received, one per interrupt;
\* so with one interrupt, no session change and no event of service_main's own,
\* what the channel carried and what service_main received by the time it
\* returns is exactly one Stop.
C5_OneStop ==
    /\ changes = 0 =>
          /\ sends["monitor"] = <<>>
          /\ \A i \in 1..Len(received \o queue) : ~IsSessionEvent((received \o queue)[i].ev)
    /\ Len(sends["ctrlc"]) = interrupts
    /\ \A i \in 1..Len(sends["ctrlc"]) : sends["ctrlc"][i].ev = EvStop
    /\ rx_alive => From(received \o queue, "ctrlc") = [i \in 1..interrupts |-> EvStop]
    /\ (changes = 0 /\ interrupts = 1 /\ sends["main"] = <<>> /\ rx_alive)
          => Events(received \o queue) = <<EvStop>>
    /\ (changes = 0 /\ interrupts = 1 /\ sends["main"] = <<>> /\ sm_pc = "returned")
          => Events(received) = <<EvStop>>

\* C5 witness: service_main has returned after one interrupt, with notifications
\* delivered that found the session unchanged
C5_Witness ==
    /\ sm_pc = "returned"
    /\ changes = 0
    /\ notified >= 1
    /\ cb_pc = "idle"
    /\ current_session.tag = "Some"
    /\ interrupts = 1
    /\ sends["main"] = <<>>

---------------------------------------------------------------------------
(* The executor's outcomes.                                                *)

\* C7: a command terminated by a signal still gives the caller an error value.
C7_SignalReturnsError ==
    (ex_fn # "none" /\ ex_out.kind = "signaled") => ex_res.tag = "Err"

\* C8: a spawn failure gives the spawn error and nothing else; exit code 0 gives
\* success, with the captured stdout (lossily decoded) from
\* systemctl_execute_with_result; a non-zero exit code gives the command error
\* with that code and the captured stderr (empty when it is not UTF-8).
C8_OutcomeClasses ==
    ex_fn # "none" =>
        /\ ex_out.kind = "spawn_failed" =>
              /\ ex_res.tag = "Err"
              /\ ex_res.err = [msg |-> "Failed to execute command",
                               command |-> ex_args[1], cause |-> ex_out.cause]
        /\ (ex_out.kind = "exited" /\ ex_out.code = 0) =>
              /\ ex_res.tag = "Ok"
              /\ ex_fn = "with_result" =>
                    /\ Len(ex_res.val) = Len(ex_out.stdout)
                    /\ \A i \in 1..Len(ex_out.stdout) :
                          ex_res.val[i] =
                              IF ex_out.stdout[i] = BadByte THEN ReplacementChar
                              ELSE ex_out.stdout[i]
        /\ (ex_out.kind = "exited" /\ ex_out.code # 0) =>
              /\ ex_res.tag = "Err"
              /\ ex_res.err = [msg |-> "Command failed", command |-> ex_args[1],
                               code |-> ex_out.code,
                               stderr |-> IF \E i \in 1..Len(ex_out.stderr) :
                                                ex_out.stderr[i] = BadByte
                                          THEN <<>> ELSE ex_out.stderr]

\* C8 witness: an invocation whose spawn failed has returned
C8_Witness ==
    /\ ex_fn = "with_result"
    /\ ex_out.kind = "spawn_failed"
    /\ ex_res.tag = "Err"
    /\ ex_res.err.msg = "Failed to execute command"

---------------------------------------------------------------------------
(* get_status: what it returns.                                            *)

\* get_status has run its status query and the query gave a text
TextObtained ==
    /\ gs_pc = "done"
    /\ Len(gs_log) = 3
    /\ Success(native.status_q)

\* the status text of the native manager
StatusText == native.status_q.stdout

\* the failed-flag query reports failed, and reports not failed
ReportsFailed == native.failed_q = Exited(0, <<"f", "a", "i", "l", "e", "d", "\n">>, <<>>)
ReportsNotFailed ==
    native.failed_q = Exited(1, <<"i", "n", "a", "c", "t", "i", "v", "e", "\n">>, <<>>)

\* the substates of each branch, with the marker of each
ActiveSubstates ==
    {<<"Running", RunningMarker>>, <<"Exited", ExitedMarker>>,
     <<"Waiting", WaitingMarker>>, <<"Dead", DeadMarker>>}
InactiveSubstates ==
    {<<"Dead", DeadMarker>>, <<"Exited", ExitedMarker>>,
     <<"Waiting", WaitingMarker>>, <<"Resetting", ResettingMarker>>}

\* the substates of a branch whose marker the text contains
Marked(text, substates) == {m \in substates : Contains(text, m[2])}

InactiveDeadText ==
    <<"A", "c", "t", "i", "v", "e", ":", " ", "i", "n", "a", "c", "t", "i", "v", "e",
      " ", "(", "d", "e", "a", "d", ")">>

\* C2: the status text "Active: inactive (dead)" with the failed flag reported
\* gives state Inactive(Dead) and is_failed = true.
C2_InactiveDead ==
    (TextObtained /\ StatusText = InactiveDeadText /\ ReportsFailed)
        => /\ gs_result.tag = "Ok"
           /\ gs_result.val.state = Inactive("Dead")
           /\ gs_result.val.is_failed = TRUE

\* C3: a status text with exactly one substate marker of the branch that the
\* presence of "active (" selects gives the state of that branch and marker, with
\* the failed flag as the failed-flag query reported it; a text containing
\* "active (running)" with the flag not reported gives Active(Running), not failed.
C3_OneMarker ==
    TextObtained =>
        /\ \A m \in ActiveSubstates :
              (Contains(StatusText, ActiveMarker) /\ Marked(StatusText, ActiveSubstates) = {m})
                 => gs_result.tag = "Ok" /\ gs_result.val.state = Active(m[1])
        /\ \A m \in InactiveSubstates :
              (~Contains(StatusText, ActiveMarker)
                  /\ Marked(StatusText, InactiveSubstates) = {m})
                 => gs_result.tag = "Ok" /\ gs_result.val.state = Inactive(m[1])
        /\ (gs_result.tag = "Ok" /\ ReportsFailed) => gs_result.val.is_failed = TRUE
        /\ (gs_result.tag = "Ok" /\ ReportsNotFailed) => gs_result.val.is_failed = FALSE
        /\ (Contains(StatusText, <<"a", "c", "t", "i", "v", "e">> \o RunningMarker)
               /\ ReportsNotFailed)
              => /\ gs_result.tag = "Ok"
                 /\ gs_result.val.state = Active("Running")
                 /\ gs_result.val.is_failed = FALSE

\* C3 witness: get_status has classified a text without "active (" whose only
\* Inactive marker is " (exited)"
C3_Witness ==
    /\ TextObtained
    /\ ~Contains(StatusText, ActiveMarker)
    /\ Marked(StatusText, InactiveSubstates) = {<<"Exited", ExitedMarker>>}
    /\ gs_result.tag = "Ok"
    /\ gs_result.val.state = Inactive("Exited")

\* C4: a status text with no substate marker of the selected branch gives an
\* error that carries the text, never a ServiceStatus.
C4_NoMarkerIsError ==
    (TextObtained
        /\ Marked(StatusText,
                  IF Contains(StatusText, ActiveMarker)
                  THEN ActiveSubstates ELSE InactiveSubstates) = {})
        => /\ gs_result.tag = "Err"
           /\ gs_result.err.msg = "Invalid ActiveState"
           /\ gs_result.err.text = gs_log[3].res.val
           /\ Len(gs_result.err.text) = Len(StatusText)

\* C4 witness: get_status has refused a text of the Active branch whose only
\* marker, " (resetting)", belongs to the Inactive branch
C4_Witness ==
    /\ TextObtained
    /\ Contains(StatusText, ActiveMarker)
    /\ Contains(StatusText, ResettingMarker)
    /\ gs_result.tag = "Err"
    /\ gs_result.err.msg = "Invalid ActiveState"

\* C9: a pid answer that is not a number, and a process that does not exist when
\* its command line is read, make get_status return an error (it does not panic).
C9_BadInputsAreErrors ==
    /\ (gs_pc = "done"
           /\ native.pid_q = Exited(0, <<"M", "a", "i", "n", "P", "I", "D", "=", "a", "b", "c", "\n">>, <<>>))
          => gs_result.tag = "Err"
    /\ (gs_pc = "done" /\ Len(gs_log) = 2 /\ gs_log[2].res.tag # "Panic"
           /\ ~(native.proc.alive /\ native.proc.pid = gs_pid))
          => gs_result.tag = "Err"

\* C10, as claimed: an error of any native command of create, start or stop is
\* what the operation returns, and an error of any of get_status's three queries
\* makes get_status return an error, not a ServiceStatus.
C10_AllFailuresReturned ==
    /\ ctl_op.op \in {"create", "start", "stop"} =>
          \A i \in 1..Len(ctl_op.log) :
              ctl_op.log[i].res.tag = "Err" => ctl_op.result = ctl_op.log[i].res
    /\ gs_pc = "done" =>
          \A i \in 1..Len(gs_log) : gs_log[i].res.tag = "Err" => gs_result.tag # "Ok"

\* C10, amended: an error the executor returns to create, start or stop, or to
\* get_status for its pid query or its status query, is what the operation
\* returns, unchanged; an error of the failed-flag query is not returned:
\* get_status goes on with is_failed = false.
C10_FailuresReturnedButFailedFlag ==
    /\ ctl_op.op \in {"create", "start", "stop"} =>
          \A i \in 1..Len(ctl_op.log) :
              ctl_op.log[i].res.tag = "Err" => ctl_op.result = ctl_op.log[i].res
    /\ gs_pc = "done" =>
          \A i \in 1..Len(gs_log) :
              (gs_log[i].res.tag = "Err" /\ gs_log[i].args \in {ArgsShowPid, ArgsStatus})
                 => gs_result = gs_log[i].res
    /\ (Len(gs_log) >= 2 /\ gs_log[2].res.tag = "Err") =>
          /\ gs_log[2].args = ArgsIsFailed
          /\ gs_is_failed = FALSE
          /\ gs_pc # "failed"
          /\ gs_result # gs_log[2].res
          /\ gs_result.tag = "Ok" => gs_result.val.is_failed = FALSE

\* C10 witness: get_status has returned a ServiceStatus although its failed-flag
\* query returned an error
C10_Witness ==
    /\ gs_pc = "done"
    /\ Len(gs_log) = 3
    /\ gs_log[2].res.tag = "Err"
    /\ gs_result.tag = "Ok"

---------------------------------------------------------------------------
(* create and delete: the descriptor.                                      *)

\* the descriptor paths after a create that succeeded
Installed(cfg) ==
    [unit |-> "complete", dropin_dir |-> cfg.tag = "Some",
     conf |-> IF cfg.tag = "Some" THEN "complete" ELSE "absent"]

\* the argument vectors of the commands an operation ran, in order
Commands(op) == [i \in 1..Len(op.log) |-> op.log[i].args]

\* C11: delete returns exactly the result of the unregister step (disable): an
\* error iff disable fails, and then nothing is removed; success whenever disable
\* succeeds, whatever daemon-reload, reset-failed and the removals do.
C11_DeleteReturnsUnregister ==
    ctl_op.op = "delete" =>
        /\ Len(ctl_op.log) >= 1
        /\ ctl_op.log[1].args = ArgsDisable
        /\ ctl_op.log[1].res.tag = "Ok" => ctl_op.result = Ok(Unit)
        /\ ctl_op.log[1].res.tag # "Ok" =>
              /\ ctl_op.result.tag = "Err"
              /\ Len(ctl_op.log) = 1
              /\ fs = ctl_op.fs_before

\* C12: create is safe to retry: a create that follows a create, and that the
\* environment lets through, succeeds and leaves what one successful create
\* leaves, with or without a config blob.
C12_CreateRetry ==
    [][(ctl_op.op = "create" /\ ctl_op'.op = "create" /\ ctl_op'.permitted)
          => (ctl_op'.result = Ok(Unit) /\ fs' = Installed(config))]_vars

\* C13: from nothing installed, with everything succeeding: create succeeds after
\* daemon-reload and enable, the delete after it succeeds after disable,
\* daemon-reload and reset-failed, and the unit file and the drop-in directory
\* are gone.
C13_CreateThenDelete ==
    [][(/\ ctl_op.op = "create" /\ ctl_op.fs_before = FsEmpty /\ ctl_op.permitted
        /\ ctl_op'.op = "delete" /\ ctl_op'.permitted)
          => (/\ ctl_op.result = Ok(Unit)
              /\ Commands(ctl_op) = <<ArgsDaemonReload, ArgsEnable>>
              /\ ctl_op'.fs_before = Installed(config)
              /\ ctl_op'.result = Ok(Unit)
              /\ Commands(ctl_op') = <<ArgsDisable, ArgsDaemonReload, ArgsResetFailed>>
              /\ fs'.unit = "absent"
              /\ ~fs'.dropin_dir
              /\ fs' = FsEmpty)]_vars

\* a delete that removed the unit file, the drop-in directory and the config
\* file a create had written
C13_Witness ==
    /\ ctl_op.op = "delete"
    /\ ctl_op.permitted
    /\ ctl_op.result = Ok(Unit)
    /\ config.tag = "Some"
    /\ ctl_op.fs_before = Installed(config)
    /\ fs = FsEmpty

---------------------------------------------------------------------------
(* dispatch: what runs before service_main.                                *)

\* C14: dispatch fails fast: when the monitor or the interrupt handler cannot be
\* registered service_main is never invoked, and whenever service_main has been
\* invoked the monitor subscription and then the interrupt handler had been
\* registered.
C14_FailFast ==
    /\ d_pc = "panicked" => sm_pc = "not_started" /\ Len(registered) < 2
    /\ sm_pc # "not_started" => registered = <<"monitor", "ctrlc">>

\* service_main is running, both producers behind it
C14_Witness ==
    /\ sm_pc = "loop"
    /\ d_pc = "running"
    /\ registered = <<"monitor", "ctrlc">>

---------------------------------------------------------------------------
(* get_status: two calls, and a call the service changes under.            *)

\* every step of the call before and of this call met the same native state
SameNative ==
    /\ gs_prev.at # <<>>
    /\ \A i \in 1..Len(gs_prev.at) : gs_prev.at[i] = gs_prev.at[1]
    /\ \A i \in 1..Len(gs_at) : gs_at[i] = gs_prev.at[1]

StdoutOf(out) == FromUtf8Lossy(out.stdout)

\* C19: get_status makes its queries one after the other (pid, failed flag,
\* command line, status text) and each field of the status it returns is what its
\* own step met: when the service changed between the steps the call returns the
\* mixed status and no error.
C19_FieldsOfDifferentInstants ==
    (gs_pc = "done" /\ gs_result.tag = "Ok") =>
        /\ Len(gs_at) = 4
        /\ [i \in 1..Len(gs_log) |-> gs_log[i].args] = <<ArgsShowPid, ArgsIsFailed, ArgsStatus>>
        /\ Ok(gs_result.val.pid) = ParsePid(StdoutOf(gs_at[1].pid_q))
        /\ gs_result.val.is_failed =
              (Success(gs_at[2].failed_q) /\ Contains(StdoutOf(gs_at[2].failed_q), FailedWord))
        /\ gs_at[3].proc.alive
        /\ gs_result.val.cmdline = gs_at[3].proc.cmdline
        /\ gs_result.val.details = StdoutOf(gs_at[4].status_q)

\* the pid and command line of process 12 in one status with the state of the
\* service restarted as process 34
C19_Witness ==
    /\ gs_pc = "done"
    /\ gs_result.tag = "Ok"
    /\ gs_result.val.pid = <<"1", "2">>
    /\ gs_at[1] = DefaultNative
    /\ gs_at[4] = RestartedNative
    /\ gs_result.val.state = Active("Exited")

---------------------------------------------------------------------------
(* The monitor's slot, and queries that fail.                              *)

\* the session a query result stands for: none when the query failed
Queried(q) == IF q.tag = "Ok" THEN [tag |-> "Some", val |-> q.val] ELSE [tag |-> "None"]

\* a step that completes a callback
CallbackEnds == cb_pc = "disconnect" /\ cb_pc' = "idle"

\* C16: after every completed callback the slot holds the session that callback's
\* query gave, None when the query failed, whether or not events were sent and
\* whether or not the sends succeeded; after startup only the completion of a
\* callback changes the slot.
C16_SlotFollowsQuery ==
    [][/\ CallbackEnds => current_session' = Queried(last_query)
       /\ (cb_pc' = "idle" /\ notified' > 0) => current_session' = Queried(last_query')
       /\ (current_session' # current_session /\ d_pc # "start") => CallbackEnds]_vars

\* a callback that found no transition and sent nothing has completed, and one
\* whose send failed because the Receiver was gone
C16_Witness ==
    /\ cb_pc = "idle"
    /\ notified = 2
    /\ \E i \in 1..Len(sends["monitor"]) : ~sends["monitor"][i].ok
    /\ cb_sent # <<>>
    /\ current_session = Queried(last_query)

\* C17: a query that fails does not stop the monitor.  It counts as no active
\* session: with Some(A) recorded the callback sends exactly SessionDisconnect(A),
\* with None nothing; a callback never ends dispatch; and a later query that gives
\* A is answered by SessionConnect(A).
C17_QueryFailureIsNoSession ==
    [][/\ (CallbackEnds /\ last_query.tag = "Err") =>
              cb_sent' = IF current_session.tag = "Some"
                         THEN <<SessionDisconnect(current_session.val.identifier)>>
                         ELSE <<>>
       /\ (CallbackEnds /\ last_query.tag = "Err") => current_session' = None
       /\ (CallbackEnds /\ current_session = None /\ last_query.tag = "Ok") =>
              cb_sent' = <<SessionConnect(last_query.val.identifier)>>
       /\ (d_pc = "start" /\ last_query'.tag = "Err") =>
              (d_pc' = "panicked" \/ (d_pc' = "monitored" /\ current_session' = None))
       /\ cb_pc' # cb_pc => d_pc' = d_pc]_vars

\* startup found s1, the first callback's query failed (SessionDisconnect(s1)),
\* the second callback's query gave s1 again (SessionConnect(s1))
C17_Witness ==
    /\ cb_pc = "idle"
    /\ notified = 2
    /\ [i \in 1..Len(sends["monitor"]) |-> sends["monitor"][i].ev]
           = <<SessionDisconnect("s1"), SessionConnect("s1")>>
    /\ cb_sent = <<SessionConnect("s1")>>

---------------------------------------------------------------------------
(* get_status: several markers in one text.                                *)

\* the substates of each branch in their order of priority, with their markers
ActiveOrder ==
    <<<<"Running", RunningMarker>>, <<"Exited", ExitedMarker>>,
      <<"Waiting", WaitingMarker>>, <<"Dead", DeadMarker>>>>
InactiveOrder ==
    <<<<"Dead", DeadMarker>>, <<"Exited", ExitedMarker>>,
      <<"Waiting", WaitingMarker>>, <<"Resetting", ResettingMarker>>>>

\* entry i of the order is the first one whose marker the text contains
FirstMarked(text, order, i) ==
    /\ Contains(text, order[i][2])
    /\ \A j \in 1..(i - 1) : ~Contains(text, order[j][2])

\* C18: of several substate markers of the selected branch in one status text the
\* first in the branch's order wins (Active: running, exited, waiting, dead;
\* Inactive: dead, exited, waiting, resetting), wherever they stand in the text;
\* the Active branch never gives resetting, the Inactive branch never running.
C18_FirstInOrderWins ==
    TextObtained =>
        /\ \A i \in 1..Len(ActiveOrder) :
              (Contains(StatusText, ActiveMarker) /\ FirstMarked(StatusText, ActiveOrder, i))
                 => gs_result.tag = "Ok" /\ gs_result.val.state = Active(ActiveOrder[i][1])
        /\ \A i \in 1..Len(InactiveOrder) :
              (~Contains(StatusText, ActiveMarker)
                  /\ FirstMarked(StatusText, InactiveOrder, i))
                 => gs_result.tag = "Ok" /\ gs_result.val.state = Inactive(InactiveOrder[i][1])
        /\ gs_result.tag = "Ok" =>
              /\ gs_result.val.state # Active("Resetting")
              /\ gs_result.val.state # Inactive("Running")

\* a text of the Active branch that names " (dead)" before " (running)" was
\* classified Running
C18_Witness ==
    /\ TextObtained
    /\ Contains(StatusText, ActiveMarker)
    /\ Contains(StatusText, DeadMarker \o RunningMarker)
    /\ gs_result.tag = "Ok"
    /\ gs_result.val.state = Active("Running")

---------------------------------------------------------------------------
(* dispatch: how it ends.                                                  *)

\* service_main has been called and has not returned
ServiceMainRuns == sm_pc \in {"loop", "break"}

\* C20: with the documented service_main and a fair scheduler, an interrupt is
\* followed by service_main receiving Stop and returning, and dispatch returns
\* with it, never before; while service_main runs the monitor is subscribed, the
\* Receiver exists and the monitor, the handler and service_main each hold a
\* Sender, so the channel is never closed under the consumer.
C20_StopEndsDispatch ==
    /\ (interrupts > 0) ~> (sm_pc = "returned" /\ d_pc = "returned")
    /\ [](d_pc = "returned" <=> sm_pc = "returned")
    /\ [](sm_pc = "returned" =>
             (received # <<>> /\ received[Len(received)].ev = EvStop))
    /\ [](ServiceMainRuns =>
             /\ Subscribed
             /\ rx_alive
             /\ {"monitor", "ctrlc", "main"} \subseteq Senders)

\* dispatch has returned after an interrupt, service_main having received session
\* events and then the handler's Stop
C20_Witness ==
    /\ d_pc = "returned"
    /\ sm_pc = "returned"
    /\ interrupts > 0
    /\ Len(received) >= 2
    /\ received[Len(received)] = [src |-> "ctrlc", ev |-> EvStop]

---------------------------------------------------------------------------
(* The session events and the slot.                                        *)

\* the sessions an optional session stands for
SessionsOf(opt) == IF opt.tag = "Some" THEN {opt.val.identifier} ELSE {}

\* the events of the monitor's send calls so far, in order
MonitorEvents == [i \in 1..Len(sends["monitor"]) |-> sends["monitor"][i].ev]

\* the sessions connected after the first n events, those of init being
\* connected at the start
RECURSIVE Connected(_, _, _)
Connected(evs, n, init) ==
    IF n = 0 THEN init
    ELSE IF evs[n].type = "SessionConnect"
         THEN Connected(evs, n - 1, init) \cup {evs[n].session}
    ELSE IF evs[n].type = "SessionDisconnect"
         THEN Connected(evs, n - 1, init) \ {evs[n].session}
    ELSE Connected(evs, n - 1, init)

\* C21: while the Receiver exists, after each callback the sessions with a
\* SessionConnect not yet followed by their SessionDisconnect, the session
\* recorded at startup counting as connected, are exactly the slot's content; no
\* session is connected twice without a disconnect between, and every
\* SessionDisconnect is of a session connected before it or active at startup.
C21_EventsMatchSlot ==
    (rx_alive /\ d_pc \in {"monitored", "running"}) =>
        LET evs  == MonitorEvents
            init == SessionsOf(startup_session)
        IN  /\ cb_pc = "idle" =>
                  Connected(evs, Len(evs), init) = SessionsOf(current_session)
            /\ \A n \in 1..Len(evs) :
                  /\ evs[n].type = "SessionConnect" =>
                        evs[n].session \notin Connected(evs, n - 1, init)
                  /\ evs[n].type = "SessionDisconnect" =>
                        evs[n].session \in Connected(evs, n - 1, init)

\* startup recorded s1; the callbacks then saw s2 and s1 again: s1 was
\* disconnected without a connect before it, and connected afterwards
C21_Witness ==
    /\ rx_alive
    /\ d_pc = "running"
    /\ cb_pc = "idle"
    /\ startup_session = Some([identifier |-> "s1"])
    /\ MonitorEvents = <<SessionConnect("s2"), SessionDisconnect("s1"),
                         SessionConnect("s1"), SessionDisconnect("s2")>>
    /\ current_session = Some([identifier |-> "s1"])

====
